---- MODULE Spec2Model ----
(***************************************************************************)
(* Model of tensorflow_datasets/core/subsplits_utils.py: even_splits,      *)
(* split_for_jax_process and the lazy _EvenSplit descriptor's resolve.     *)
(*                                                                         *)
(* A split string is held in parsed form: a sequence of addends, one per   *)
(* `+`, each [splitname, sliced, from_, to]; `sliced` says whether the     *)
(* addend's text carries a bracketed window.  Optional values are <<>>     *)
(* (None) or <<v>>.                                                        *)
(***************************************************************************)
EXTENDS Integers, Sequences, FiniteSets, TLC

VARIABLES split_infos, loaded, call, subsplits, raised, resolved, used, selected

vars == <<split_infos, loaded, call, subsplits, raised, resolved, used, selected>>

\* ---------------------------------------------------------------- bounds
MaxExamples == 4
MaxFrom == 1
MaxLen == 1
MaxCount == 3
MaxRanges == 2
MaxLegacyN == 101
MaxProcs == 2

\* ---------------------------------------------------------------- values
None == <<>>
Some(v) == <<v>>

Names == {"train", "test"}

Remainder == {"LEGACY_PERCENT", "DROP", "BALANCE", "ON_FIRST"}

\* A value that is no member of the enum (Python does not check the type of
\* the `remainder` argument).
NotARemainder == "NOT_A_REMAINDER"

RemainderArgs == Remainder \cup {NotARemainder}

\* The windows an addend's brackets can hold, <<from_, to>>: each bound absent,
\* zero or positive, with from_ <= to where both are given.
Windows ==
  {<<None, None>>, <<Some(0), Some(0)>>, <<Some(MaxFrom), None>>,
   <<None, Some(MaxFrom + MaxLen)>>, <<Some(MaxFrom), Some(MaxFrom + MaxLen)>>}

\* The addends a split string can be made of: a bare name, or a name with an
\* absolute window.
Addends ==
  {[splitname |-> nm, sliced |-> FALSE, from_ |-> None, to |-> None] : nm \in Names}
  \cup
  {[splitname |-> nm, sliced |-> TRUE, from_ |-> w[1], to |-> w[2]] :
     nm \in Names, w \in Windows}

Splits == UNION {[1..k -> Addends] : k \in 1..MaxRanges}

SplitInfos == [Names -> 0..MaxExamples]

Ok(v) == [raised |-> "", value |-> v]
Raise(e) == [raised |-> e, value |-> <<>>]

Min(a, b) == IF a <= b THEN a ELSE b

\* ------------------------------------------------- collaborators (parser)
\* ReadInstruction.from_spec(split).to_absolute(split_infos): one absolute
\* instruction per addend, in the order of the expression.
to_absolute(split, infos) ==
  [j \in 1..Len(split) |->
     [splitname |-> split[j].splitname, from_ |-> split[j].from_, to |-> split[j].to]]

\* ReadInstruction.__add__: concatenation of the two instruction lists.
ReadInstruction_add(a, b) == a \o b

\* ---------------------------------------------------------------- _EvenSplit
\* Variants of the remainder handling with one slip each.
\* ON_FIRST that forgets to shift the later shards' start.
HandleRemainder_NoShift(self, shard_start, shard_end, num_unused_examples) ==
  IF num_unused_examples > 0
  THEN IF self.remainder = "DROP"
       THEN Ok(<<shard_start, shard_end>>)
       ELSE IF self.remainder = "BALANCE"
       THEN Ok(<<shard_start + Min(self.index, num_unused_examples),
                 shard_end + Min(self.index + 1, num_unused_examples)>>)
       ELSE IF self.remainder = "ON_FIRST"
       THEN Ok(<<shard_start, shard_end + num_unused_examples>>)
       ELSE Raise("ValueError")
  ELSE Ok(<<shard_start, shard_end>>)

\* ON_FIRST that shifts shard 0 as well (`index >= 0` for `index > 0`).
HandleRemainder_ShiftAll(self, shard_start, shard_end, num_unused_examples) ==
  IF num_unused_examples > 0
  THEN IF self.remainder = "DROP"
       THEN Ok(<<shard_start, shard_end>>)
       ELSE IF self.remainder = "BALANCE"
       THEN Ok(<<shard_start + Min(self.index, num_unused_examples),
                 shard_end + Min(self.index + 1, num_unused_examples)>>)
       ELSE IF self.remainder = "ON_FIRST"
       THEN Ok(<<shard_start + num_unused_examples,
                 shard_end + num_unused_examples>>)
       ELSE Raise("ValueError")
  ELSE Ok(<<shard_start, shard_end>>)

\* DROP that hands the remainder to the last shard.
HandleRemainder_DropKeeps(self, shard_start, shard_end, num_unused_examples) ==
  IF num_unused_examples > 0
  THEN IF self.remainder = "DROP"
       THEN Ok(<<shard_start,
                 IF self.index = self.count - 1
                 THEN shard_end + num_unused_examples ELSE shard_end>>)
       ELSE IF self.remainder = "BALANCE"
       THEN Ok(<<shard_start + Min(self.index, num_unused_examples),
                 shard_end + Min(self.index + 1, num_unused_examples)>>)
       ELSE IF self.remainder = "ON_FIRST"
       THEN Ok(<<IF self.index > 0 THEN shard_start + num_unused_examples
                                   ELSE shard_start,
                 shard_end + num_unused_examples>>)
       ELSE Raise("ValueError")
  ELSE Ok(<<shard_start, shard_end>>)

\* BALANCE that gives the extra examples to the last shards instead of the first.
HandleRemainder_BalanceLast(self, shard_start, shard_end, num_unused_examples) ==
  IF num_unused_examples > 0
  THEN IF self.remainder = "DROP"
       THEN Ok(<<shard_start, shard_end>>)
       ELSE IF self.remainder = "BALANCE"
       THEN LET first == self.count - num_unused_examples
                extra(i) == IF i > first THEN i - first ELSE 0
            IN  Ok(<<shard_start + extra(self.index),
                     shard_end + extra(self.index + 1)>>)
       ELSE IF self.remainder = "ON_FIRST"
       THEN Ok(<<IF self.index > 0 THEN shard_start + num_unused_examples
                                   ELSE shard_start,
                 shard_end + num_unused_examples>>)
       ELSE Raise("ValueError")
  ELSE Ok(<<shard_start, shard_end>>)

\* Lines 94-106: the remainder handling; <<shard_start, shard_end>> or a raise.
HandleRemainder(self, shard_start, shard_end, num_unused_examples) ==
  IF num_unused_examples > 0
  THEN IF self.remainder = "DROP"
       THEN Ok(<<shard_start, shard_end>>)
       ELSE IF self.remainder = "BALANCE"
       THEN Ok(<<shard_start + Min(self.index, num_unused_examples),
                 shard_end + Min(self.index + 1, num_unused_examples)>>)
       ELSE IF self.remainder = "ON_FIRST"
       THEN Ok(<<IF self.index > 0 THEN shard_start + num_unused_examples
                                   ELSE shard_start,
                 shard_end + num_unused_examples>>)
       ELSE Raise("ValueError")
  ELSE Ok(<<shard_start, shard_end>>)

\* The baseline with the per-host count rounded up instead of down.
BaselineWindow_Ceil(self, start, num_examples) ==
  LET examples_per_host == (num_examples + self.count - 1) \div self.count
  IN  <<start + examples_per_host * self.index,
        start + examples_per_host * (self.index + 1)>>

\* Lines 86-88: the window before the remainder is handled.
BaselineWindow(self, start, num_examples) ==
  LET examples_per_host == num_examples \div self.count
  IN  <<start + examples_per_host * self.index,
        start + examples_per_host * (self.index + 1)>>

_absolute_to_read_instruction_for_index(self, abs_inst, infos) ==
  LET start == IF abs_inst.from_ = None \/ abs_inst.from_ = Some(0)
               THEN 0 ELSE abs_inst.from_[1]
      end == IF abs_inst.to = None THEN infos[abs_inst.splitname]
             ELSE abs_inst.to[1]
  IN  IF ~(end >= start) THEN Raise("AssertionError")
      ELSE
        LET num_examples == end - start
            base == BaselineWindow(self, start, num_examples)
            num_unused_examples == num_examples % self.count
            w == HandleRemainder(self, base[1], base[2], num_unused_examples)
        IN  IF w.raised # "" THEN w
            ELSE Ok(<<[splitname |-> abs_inst.splitname,
                       from_ |-> w.value[1], to |-> w.value[2], unit |-> "abs"]>>)

\* functools.reduce(operator.add, xs) over a non-empty list of results; a raise
\* in the list comprehension propagates.
RECURSIVE ReduceAdd(_)
ReduceAdd(xs) ==
  IF Len(xs) = 1 THEN xs[1]
  ELSE ReadInstruction_add(ReduceAdd(SubSeq(xs, 1, Len(xs) - 1)), xs[Len(xs)])

\* resolve that collects the per-range results in reverse order.
resolve_Reversed(self, infos) ==
  LET absolute_instructions == to_absolute(self.split, infos)
      k == Len(absolute_instructions)
      read_instructions_for_index ==
        [j \in 1..k |->
           _absolute_to_read_instruction_for_index(self, absolute_instructions[k + 1 - j], infos)]
      failed == {j \in 1..k : read_instructions_for_index[j].raised # ""}
  IN  IF failed # {}
      THEN read_instructions_for_index[CHOOSE j \in failed : \A m \in failed : j <= m]
      ELSE Ok(ReduceAdd([j \in 1..k |-> read_instructions_for_index[j].value]))

resolve(self, infos) ==
  LET absolute_instructions == to_absolute(self.split, infos)
      read_instructions_for_index ==
        [j \in 1..Len(absolute_instructions) |->
           _absolute_to_read_instruction_for_index(self, absolute_instructions[j], infos)]
      failed == {j \in 1..Len(absolute_instructions) :
                   read_instructions_for_index[j].raised # ""}
  IN  IF failed # {}
      THEN read_instructions_for_index[CHOOSE j \in failed : \A k \in failed : j <= k]
      ELSE Ok(ReduceAdd([j \in 1..Len(absolute_instructions) |->
                           read_instructions_for_index[j].value]))

\* ---------------------------------------------------------------- even_splits
\* Rounding halves up, as Python 2 did.
round_HalfUp(num, den) == (2 * num + den) \div (2 * den)

\* round(num / den) for num >= 0, den > 0: Python 3 rounds halves to even, and
\* the float quotient of two integers below 2^53 is a half only when exact.
round(num, den) ==
  LET q == num \div den
      r == num % den
  IN  IF 2 * r < den THEN q
      ELSE IF 2 * r > den THEN q + 1
      ELSE IF q % 2 = 0 THEN q ELSE q + 1

\* '[' in split, '+' in split
HasBracket(split) == \E j \in 1..Len(split) : split[j].sliced
HasPlus(split) == Len(split) > 1

_even_split_percent(split, n) ==
  IF HasBracket(split) \/ HasPlus(split) THEN Raise("ValueError")
  ELSE IF n <= 0 \/ n > 100 THEN Raise("ValueError")
  ELSE LET partitions == [k \in 1..(n + 1) |-> round((k - 1) * 100, n)]
       IN  Ok([i \in 1..n |->
                 split[1].splitname \o "[" \o ToString(partitions[i]) \o "%:"
                   \o ToString(partitions[i + 1]) \o "%]"])

even_splits(split, n, remainder) ==
  IF remainder = "LEGACY_PERCENT" THEN _even_split_percent(split, n)
  ELSE Ok([i \in 1..(IF n > 0 THEN n ELSE 0) |->
             [split |-> split, index |-> i - 1, count |-> n, remainder |-> remainder]])

\* Indexing that rejects negative indices.
ListGetItem_NoWrap(list, index) ==
  IF 0 <= index /\ index < Len(list) THEN Ok(list[index + 1])
  ELSE Raise("IndexError")

\* list[index]: a negative index counts from the end.
ListGetItem(list, index) ==
  IF 0 <= index /\ index < Len(list) THEN Ok(list[index + 1])
  ELSE IF -Len(list) <= index /\ index < 0 THEN Ok(list[Len(list) + index + 1])
  ELSE Raise("IndexError")

\* Defaults taken together: the context answers both when either is omitted.
JaxDefaults_Together(index, count, process_index, process_count) ==
  IF index = None \/ count = None
  THEN [index |-> process_index, count |-> process_count]
  ELSE [index |-> index[1], count |-> count[1]]

\* Lines 227-230: the defaults of index and count.
JaxDefaults(index, count, process_index, process_count) ==
  [index |-> IF index = None THEN process_index ELSE index[1],
   count |-> IF count = None THEN process_count ELSE count[1]]

split_for_jax_process(split, index, count, remainder, process_index, process_count) ==
  LET d == JaxDefaults(index, count, process_index, process_count)
      lst == even_splits(split, d.count, remainder)
  IN  IF lst.raised # "" THEN lst ELSE ListGetItem(lst.value, d.index)

\* ---------------------------------------------------------------- state machine
NoCall == [fn |-> "none", split |-> <<>>, n |-> 0, remainder |-> "DROP",
           index |-> None, count |-> None, process_index |-> 0, process_count |-> 1]
NoUsed == [index |-> 0, count |-> 0]
NoInfos == [nm \in Names |-> 0]

Init ==
  /\ split_infos = NoInfos
  /\ loaded = FALSE
  /\ call = NoCall
  /\ subsplits = <<>>
  /\ raised = ""
  /\ resolved = <<>>
  /\ used = NoUsed
  /\ selected = <<>>

NRange(remainder) ==
  IF remainder = "LEGACY_PERCENT" THEN (-1)..MaxLegacyN ELSE (-1)..MaxCount

\* subsplits = even_splits(split, n, remainder=remainder)
EvenSplits ==
  /\ call.fn = "none"
  /\ \E split \in Splits, remainder \in RemainderArgs :
       \E n \in NRange(remainder) :
         LET r == even_splits(split, n, remainder)
         IN  /\ call' = [NoCall EXCEPT !.fn = "even_splits", !.split = split,
                                       !.n = n, !.remainder = remainder]
             /\ subsplits' = r.value
             /\ raised' = r.raised
             /\ UNCHANGED <<split_infos, loaded, resolved, used, selected>>

\* The windows of every addend lie inside its split (to_absolute's result is
\* an AbsoluteRange of the split).
Resolvable(split, infos) ==
  \A j \in 1..Len(split) :
    /\ split[j].from_ # None => split[j].from_[1] <= infos[split[j].splitname]
    /\ split[j].to # None => split[j].to[1] <= infos[split[j].splitname]

\* The dataset's split sizes become known (the descriptors are built before).
LoadSplitInfos ==
  /\ call.fn = "even_splits"
  /\ call.remainder # "LEGACY_PERCENT"
  /\ raised = ""
  /\ Len(subsplits) > 0
  /\ ~loaded
  /\ \E infos \in SplitInfos :
       /\ Resolvable(call.split, infos)
       /\ split_infos' = infos
  /\ loaded' = TRUE
  /\ UNCHANGED <<call, subsplits, raised, resolved, used, selected>>

\* split_infos[s] for the next s of subsplits, in index order (the lazy
\* descriptor resolves itself against split_infos).
ResolveNext ==
  /\ loaded
  /\ Len(resolved) < Len(subsplits)
  /\ resolved' = Append(resolved, resolve(subsplits[Len(resolved) + 1], split_infos))
  /\ UNCHANGED <<split_infos, loaded, call, subsplits, raised, used, selected>>

JaxSplits == {s \in Splits : Len(s) = 1}
IndexArgs == {None} \cup {Some(v) : v \in (-MaxCount - 1)..MaxCount}
CountArgs == {None} \cup {Some(v) : v \in (-1)..MaxCount}

\* selected = split_for_jax_process(split, index=, count=, remainder=), the
\* jax context answering (process_index, process_count).
SplitForJaxProcess ==
  /\ call.fn = "none"
  /\ \E split \in JaxSplits, index \in IndexArgs, count \in CountArgs,
        remainder \in RemainderArgs, process_count \in 1..MaxProcs :
       \E process_index \in 0..(process_count - 1) :
         LET r == split_for_jax_process(split, index, count, remainder,
                                        process_index, process_count)
         IN  /\ call' = [fn |-> "split_for_jax_process", split |-> split,
                         n |-> 0, remainder |-> remainder,
                         index |-> index, count |-> count,
                         process_index |-> process_index,
                         process_count |-> process_count]
             /\ used' = JaxDefaults(index, count, process_index, process_count)
             /\ selected' = IF r.raised = "" THEN <<r.value>> ELSE <<>>
             /\ raised' = r.raised
             /\ UNCHANGED <<split_infos, loaded, subsplits, resolved>>

Next == EvenSplits \/ LoadSplitInfos \/ ResolveNext \/ SplitForJaxProcess

Spec == Init /\ [][Next]_vars

\* ---------------------------------------------------------------- properties
\* The resolved [start, end) of addend a under the loaded split sizes.
RangeStart(a) == IF a.from_ = None THEN 0 ELSE a.from_[1]
RangeEnd(a) == IF a.to = None THEN split_infos[a.splitname] ELSE a.to[1]
RangeSize(a) == RangeEnd(a) - RangeStart(a)

\* Shard i (0-based) of range j, once resolved without a raise.
Win(i, j) == resolved[i + 1].value[j]
WinSize(i, j) == Win(i, j).to - Win(i, j).from_

Resolving == call.fn = "even_splits" /\ loaded
AllResolved == Resolving /\ Len(resolved) = Len(subsplits)
NoneRaised == \A i \in 1..Len(resolved) : resolved[i].raised = ""
RangeIds == 1..Len(call.split)
Done == 0..(Len(resolved) - 1)

\* C1: under BALANCE and ON_FIRST the shard windows of every range, in index
\* order, tile [start, end): shard 0 begins at start, each shard ends where the
\* next begins, and the last shard ends at end.
C1_Tiling ==
  (Resolving /\ call.remainder \in {"BALANCE", "ON_FIRST"}) =>
    /\ NoneRaised
    /\ \A j \in RangeIds :
         /\ \A i \in Done :
              /\ i = 0 => Win(i, j).from_ = RangeStart(call.split[j])
              /\ i > 0 => Win(i - 1, j).to = Win(i, j).from_
              /\ i = call.n - 1 => Win(i, j).to = RangeEnd(call.split[j])

C1_Witness ==
  /\ AllResolved /\ call.remainder = "BALANCE" /\ call.n = 3
  /\ \E j \in RangeIds :
       /\ RangeStart(call.split[j]) > 0
       /\ RangeSize(call.split[j]) % 3 = 2
       /\ Win(2, j).to = RangeEnd(call.split[j])

\* C2: under DROP, BALANCE and ON_FIRST every shard window is well-formed and
\* inside [start, end), and the windows of two indices i < k are ordered:
\* start <= shard_start(i) <= shard_end(i) <= shard_start(k) <= shard_end(k) <= end.
C2_Ordered ==
  (Resolving /\ call.remainder \in {"DROP", "BALANCE", "ON_FIRST"}) =>
    /\ NoneRaised
    /\ \A j \in RangeIds : \A i \in Done :
         /\ RangeStart(call.split[j]) <= Win(i, j).from_
         /\ Win(i, j).from_ <= Win(i, j).to
         /\ Win(i, j).to <= RangeEnd(call.split[j])
         /\ \A k \in Done : i < k => Win(i, j).to <= Win(k, j).from_

C2_Witness ==
  /\ AllResolved /\ call.remainder = "BALANCE" /\ call.n = 3
  /\ \E j \in RangeIds :
       /\ RangeSize(call.split[j]) = 1
       /\ WinSize(0, j) = 1 /\ WinSize(1, j) = 0 /\ WinSize(2, j) = 0

\* C3: under DROP every shard holds exactly num // count examples and the
\* shards are contiguous from start, so their union is
\* [start, end - num % count) and the num % count trailing examples are in
\* no shard.
C3_Drop ==
  (Resolving /\ call.remainder = "DROP") =>
    /\ NoneRaised
    /\ \A j \in RangeIds :
         LET num == RangeSize(call.split[j])
         IN  \A i \in Done :
               /\ WinSize(i, j) = num \div call.n
               /\ i = 0 => Win(i, j).from_ = RangeStart(call.split[j])
               /\ i > 0 => Win(i - 1, j).to = Win(i, j).from_
               /\ i = call.n - 1 =>
                    Win(i, j).to = RangeEnd(call.split[j]) - (num % call.n)

C3_Witness ==
  /\ AllResolved /\ call.remainder = "DROP" /\ call.n = 3
  /\ \E j \in RangeIds :
       /\ RangeSize(call.split[j]) = 4
       /\ Win(2, j).to = RangeEnd(call.split[j]) - 1

\* C4: under BALANCE, with base = num // count and rem = num % count, shards
\* 0..rem-1 hold base + 1 examples and shards rem..count-1 hold base.
C4_Balance ==
  (Resolving /\ call.remainder = "BALANCE") =>
    /\ NoneRaised
    /\ \A j \in RangeIds :
         LET num == RangeSize(call.split[j])
             base == num \div call.n
             rem == num % call.n
         IN  \A i \in Done :
               WinSize(i, j) = IF i < rem THEN base + 1 ELSE base

C4_Witness ==
  /\ AllResolved /\ call.remainder = "BALANCE" /\ call.n = 3
  /\ \E j \in RangeIds :
       /\ RangeSize(call.split[j]) = 4
       /\ WinSize(0, j) = 2 /\ WinSize(1, j) = 1 /\ WinSize(2, j) = 1

\* C5: under ON_FIRST shard 0 holds base + rem examples and every later shard
\* holds base examples, shifted forward by rem.
C5_OnFirst ==
  (Resolving /\ call.remainder = "ON_FIRST") =>
    /\ NoneRaised
    /\ \A j \in RangeIds :
         LET num == RangeSize(call.split[j])
             base == num \div call.n
             rem == num % call.n
         IN  \A i \in Done :
               /\ WinSize(i, j) = IF i = 0 THEN base + rem ELSE base
               /\ i > 0 => Win(i, j).from_ =
                             RangeStart(call.split[j]) + rem + base * i

C5_Witness ==
  /\ AllResolved /\ call.remainder = "ON_FIRST" /\ call.n = 2
  /\ \E j \in RangeIds :
       /\ RangeSize(call.split[j]) = 3
       /\ WinSize(0, j) = 2 /\ WinSize(1, j) = 1

\* The integer nearest to 100 * i / n, the even one of the two when it lies
\* halfway.
IsNearestEven(p, i, n) ==
  LET d == IF p * n >= 100 * i THEN p * n - 100 * i ELSE 100 * i - p * n
  IN  2 * d <= n /\ (2 * d = n => p % 2 = 0)
Boundary(i, n) == CHOOSE p \in 0..100 : IsNearestEven(p, i, n)

LegacyCall ==
  /\ call.fn = "even_splits" /\ call.remainder = "LEGACY_PERCENT"
  /\ Len(call.split) = 1 /\ ~call.split[1].sliced

\* C6: even_splits(name, n) with LEGACY_PERCENT and a bare name returns, for
\* 1 <= n <= 100, n strings "name[p_i%:p_{i+1}%]" with p_i = round(i*100/n),
\* p_0 = 0, p_n = 100 and p non-decreasing within 0..100; for n <= 0 or
\* n > 100 it raises ValueError and returns nothing.
C6_Legacy ==
  LegacyCall =>
    IF 1 <= call.n /\ call.n <= 100
    THEN /\ raised = ""
         /\ Len(subsplits) = call.n
         /\ \A i \in 0..call.n : \E p \in 0..100 : IsNearestEven(p, i, call.n)
         /\ Boundary(0, call.n) = 0
         /\ Boundary(call.n, call.n) = 100
         /\ \A i \in 0..(call.n - 1) :
              /\ Boundary(i, call.n) <= Boundary(i + 1, call.n)
              /\ subsplits[i + 1] =
                   call.split[1].splitname \o "[" \o ToString(Boundary(i, call.n))
                     \o "%:" \o ToString(Boundary(i + 1, call.n)) \o "%]"
    ELSE raised = "ValueError" /\ subsplits = <<>>

C6_Witness ==
  /\ LegacyCall /\ call.n = 8 /\ call.split[1].splitname = "train"
  /\ raised = ""
  /\ subsplits[1] = "train[0%:12%]" /\ subsplits[2] = "train[12%:25%]"
  /\ subsplits[3] = "train[25%:38%]" /\ subsplits[8] = "train[88%:100%]"

\* The window of shard `index` of [start, start + num) split `count` ways, by
\* the policy's closed form.
ExpectedWindow(start, num, count, index, policy) ==
  LET base == num \div count
      rem == num % count
  IN  CASE policy = "DROP" ->
             <<start + base * index, start + base * (index + 1)>>
        [] policy = "BALANCE" ->
             <<start + base * index + Min(index, rem),
               start + base * (index + 1) + Min(index + 1, rem)>>
        [] policy = "ON_FIRST" ->
             IF index = 0 THEN <<start, start + base + rem>>
             ELSE <<start + rem + base * index, start + rem + base * (index + 1)>>

\* C7: resolving a sub-split of an expression of k named ranges yields k
\* absolute ranges in the expression's order, the j-th being the partition of
\* the j-th range's own [start, end) for the same count, index and policy.
C7_PerRange ==
  (Resolving /\ call.remainder \in {"DROP", "BALANCE", "ON_FIRST"}) =>
    \A i \in Done :
      /\ resolved[i + 1].raised = ""
      /\ Len(resolved[i + 1].value) = Len(call.split)
      /\ \A j \in RangeIds :
           LET a == call.split[j]
               w == ExpectedWindow(RangeStart(a), RangeSize(a), call.n, i,
                                   call.remainder)
           IN  Win(i, j) = [splitname |-> a.splitname, from_ |-> w[1],
                            to |-> w[2], unit |-> "abs"]

C7_Witness ==
  /\ AllResolved /\ call.remainder = "ON_FIRST" /\ call.n = 3
  /\ Len(call.split) = 2
  /\ call.split[1].splitname # call.split[2].splitname
  /\ RangeSize(call.split[1]) = 4 /\ RangeSize(call.split[2]) = 2
  /\ WinSize(0, 1) = 2 /\ WinSize(0, 2) = 2 /\ WinSize(1, 1) = 1 /\ WinSize(1, 2) = 0

JaxCall == call.fn = "split_for_jax_process"
Lazy == call.remainder # "LEGACY_PERCENT"

C9_Original ==
  (JaxCall /\ (call.index = None \/ call.count = None)) =>
    /\ used.index = call.process_index
    /\ used.count = call.process_count

\* C9 amended: index and count are defaulted independently: each is the
\* caller's value when given and the jax context's otherwise, so both come
\* from the caller when both are given, both from the context when both are
\* omitted, and one from each when exactly one is given; the descriptor
\* returned is built for that count.
C9_Amended ==
  JaxCall =>
    /\ used.index = IF call.index = None THEN call.process_index ELSE call.index[1]
    /\ used.count = IF call.count = None THEN call.process_count ELSE call.count[1]
    /\ (Lazy /\ raised = "") => selected[1].count = used.count

C9_Witness ==
  /\ JaxCall /\ Lazy
  /\ call.index = Some(1) /\ call.count = None
  /\ call.process_index = 0 /\ call.process_count = 2
  /\ raised = "" /\ selected[1].index = 1 /\ selected[1].count = 2

\* C10: resolving a descriptor whose remainder is none of DROP, BALANCE,
\* ON_FIRST raises ValueError for every range size and every count >= 1,
\* divisible or not; it never yields a window.
C10_Claim ==
  (Resolving /\ call.remainder \notin {"DROP", "BALANCE", "ON_FIRST"}) =>
    \A i \in 1..Len(resolved) : resolved[i].raised = "ValueError"

====
